---- MODULE Spec2Model ----
(***************************************************************************)
(* CliCast server: the session registry (services/terminal.ts), the        *)
(* WebSocket hub (services/websocket.ts) and the upgrade path of           *)
(* index.ts, as one state machine.  Every handler of the single-threaded   *)
(* event loop is one atomic action.                                        *)
(***************************************************************************)
EXTENDS Integers, Sequences, FiniteSets, TLC

\* ---------------------------------------------------------------- bounds
MaxSessions == 1         \* sessions ever created (ids are fresh UUIDs)
MaxSpawns == 3           \* PTY children ever spawned (registry runs)
MaxHubSpawns == 2        \* PTY children ever spawned (hub runs)
MaxChunks == 1           \* output chunks one PTY child emits
MaxHistoryChunks == 3    \* output chunks one PTY child emits (history runs)
MaxClock == 1            \* clock advances
MaxStreamChunks == 2     \* output chunks one PTY child emits (stream runs)
MaxTwoSessions == 2      \* sessions ever created (two-session runs)
MaxDevSpawns == 3        \* dev PTY children ever spawned
MaxWords == 3
MaxDevSubs == 2          \* output subscriptions held on the dev terminal at once

\* ------------------------------------------------------ program constants
SESSION_TIMEOUT == 1800000
MAX_HISTORY_SIZE == 102400

\* ------------------------------------------------------------ input sets
Conns == {"c1", "c2"}                       \* WebSocket connection slots
ChunkSizes == {40000, 70000, 110000}        \* chunk.length of a PTY output chunk
CharWidths == {1, 3}                        \* UTF-8 bytes of one character of a chunk
ClockSteps == {SESSION_TIMEOUT + 1}         \* ms the clock advances by
ReaperSteps == {SESSION_TIMEOUT - 1, SESSION_TIMEOUT, SESSION_TIMEOUT + 1}
Tokens == {"correcthorse", "wrongtoken"}    \* bearer tokens clients present
NoToken == "none"                           \* request without a token
TokenInputs == Tokens \cup {NoToken}
GoodToken == "correcthorse"
\* the token field of a request body of /api/auth; "" is a missing field
AuthTokens == Tokens \cup {"short"}
AuthInputs == AuthTokens \cup {""}
\* what the legacy token file may hold; "" is no file
LegacyHashes == {"", "sha256:wrongtoken"}

\* paths are strings, modelled as sequences of characters
HomePath == <<"/", "a">>
Paths ==
  { <<>>, <<"/">>, <<"/", "a">>, <<"/", "a", "/">>, <<"/", "a", "/", "b">>,
    <<"/", "a", "b">>, <<"/", "b">>, <<"/", "a", "/", ".", ".">>,
    <<"/", "a", "/", ".", ".", "/", "b">>, <<"/", "a", "/", ".", ".", "b">>,
    <<"a">>, <<"a", "/", "b">>, <<".", ".", "/", "a">> }
AllowLists ==
  { <<>>, <<HomePath>>, <<<<"/", "b">>>>, <<HomePath, <<"/", "b">>>>,
    <<<<"/", "a", "/">>>>, <<<<"/", "a", "/", "b">>>> }

VARIABLES
  sessions,          \* terminal.ts `sessions`: id -> PtySession
  sessionCallbacks,  \* terminal.ts `sessionCallbacks`: ids with callbacks stored
  heartbeatTimer,    \* terminal.ts `heartbeatTimer` is set
  nextId,            \* ids handed out by randomUUID so far
  ptys,              \* PTY children spawned so far (the adapter's side)
  clients,           \* websocket.ts `clients`: id -> set of sockets
  conn,              \* per socket: state and ws.data
  outbox,            \* per socket: the frames the last handler sent to it, in order
  seen,              \* per socket: the ordered frame types sent to it before that
  ptyOps,            \* the calls the last handler made on PTY children, in order
  timers,            \* pending setTimeout(closeSessionClients, 1500) per id
  now,               \* Date.now()
  clockAdvances,     \* number of clock advances so far
  tokenHash,         \* config file: auth.tokenHash ("" when absent)
  configExists,      \* the JSON config file exists
  legacyHash,        \* the digest in the legacy token file ("" when no file)
  reply,             \* the response to the last POST /api/sessions or /api/auth request
  devPty,            \* devTerminal.ts `devPty` (0 is null)
  devPtys,           \* dev PTY children spawned so far (the adapter's side)
  devClients,        \* devTerminal.ts `clients`: the callbacks, by socket, in insertion order
  devHistory,        \* devTerminal.ts `outputHistory`
  stopped,           \* process.exit was called
  allowedDirs,       \* config file: allowedDirs, as getConfig returns it
  guard,             \* the last call of validatePath: its path and its result
  launch             \* the last call of parseCommand: its arguments and its result

vars == <<sessions, sessionCallbacks, heartbeatTimer, nextId, ptys, clients,
          conn, outbox, seen, ptyOps, timers, now, clockAdvances, tokenHash,
          configExists, legacyHash, reply, devPty, devPtys, devClients,
          devHistory, stopped, allowedDirs, guard, launch>>

Ids == 1..(IF MaxSessions > MaxTwoSessions THEN MaxSessions ELSE MaxTwoSessions)

\* ---------------------------------------------------------------- helpers
RECURSIVE SumSizes(_)
SumSizes(h) == IF h = <<>> THEN 0 ELSE Head(h).length + SumSizes(Tail(h))

\* the bytes the PTY emitted for the chunks of h
RECURSIVE SumBytes(_)
SumBytes(h) == IF h = <<>> THEN 0 ELSE Head(h).bytes + SumBytes(Tail(h))

Present(id) == id \in DOMAIN sessions

\* Map.delete on a function
Without(f, k) == [x \in DOMAIN f \ {k} |-> f[x]]

\* Map.get(id) of the hub's client map; an absent key reads as the empty set
\* (the hub never stores an empty set: it deletes the key instead).
ClientsOf(cl, id) == IF id \in DOMAIN cl THEN cl[id] ELSE {}

\* token.ts hashToken: SHA-256 in hex, injective on the tokens used here
hashToken(t) == "sha256:" \o t


\* String.prototype.startsWith
startsWith(str, prefix) ==
  /\ Len(prefix) <= Len(str)
  /\ \A i \in 1..Len(prefix) : str[i] = prefix[i]

\* a validatePath whose prefix test lacks the '/' after the allowed entry
validatePath_NoSlash(path, allowed) ==
  IF Len(allowed) = 0 THEN TRUE
  ELSE \E i \in 1..Len(allowed) :
         path = allowed[i] \/ startsWith(path, allowed[i])

\* file.ts validatePath
validatePath(path, allowed) ==
  IF Len(allowed) = 0 THEN TRUE
  ELSE \E i \in 1..Len(allowed) :
         path = allowed[i] \/ startsWith(path, Append(allowed[i], "/"))

\* The state the nested calls of one handler work on: `ob` collects the frames
\* it sends, `io` the calls it makes on PTY children, `ret` is the value the
\* last call returned.
World == [s |-> sessions, cb |-> sessionCallbacks, p |-> ptys, cl |-> clients,
          cn |-> conn, ob |-> [c \in Conns |-> <<>>], tm |-> timers,
          io |-> <<>>, ret |-> FALSE,
          st |-> [exists |-> configExists, hash |-> tokenHash, legacy |-> legacyHash],
          rp |-> reply, dp |-> devPty, dps |-> devPtys, dc |-> devClients,
          dh |-> devHistory, halt |-> FALSE]

\* ------------------------------------------------------- the token store
\* token.ts migrateLegacyTokenFile: the legacy digest is copied into a new
\* JSON config only when no JSON config file exists
migrateLegacyTokenFile(w) ==
  IF w.st.legacy # "" /\ ~w.st.exists
  THEN [w EXCEPT !.st.exists = TRUE, !.st.hash = w.st.legacy]
  ELSE w

\* token.ts getStoredTokenHash; ret is the digest, "" for null
getStoredTokenHash(w) ==
  LET w1 == migrateLegacyTokenFile(w)
  IN [w1 EXCEPT !.ret = IF w1.st.hash # "" THEN w1.st.hash ELSE w1.st.legacy]

\* token.ts createToken
createToken(w, t) ==
  LET w1 == getStoredTokenHash(w)
  IN IF w1.ret # "" THEN [w1 EXCEPT !.ret = FALSE]
     ELSE [w1 EXCEPT !.st.exists = TRUE, !.st.hash = hashToken(t), !.ret = TRUE]

\* token.ts verifyToken
verifyToken(w, t) ==
  LET w1 == getStoredTokenHash(w)
  IN [w1 EXCEPT !.ret = (w1.ret # "" /\ w1.ret = hashToken(t))]

\* an updateToken that reports success and keeps the old hash
updateToken_KeepsOld(w, cur, new) ==
  LET w1 == getStoredTokenHash(w)
  IN [w1 EXCEPT !.ret = (w1.ret # "" /\ hashToken(cur) = w1.ret)]

\* an updateToken that writes the new hash before it compares the current one
updateToken_WritesFirst(w, cur, new) ==
  LET w1 == getStoredTokenHash(w)
  IN IF w1.ret = "" THEN [w1 EXCEPT !.ret = FALSE]
     ELSE [w1 EXCEPT !.st.exists = TRUE, !.st.hash = hashToken(new),
                     !.ret = (hashToken(cur) = w1.ret)]

\* token.ts updateToken
updateToken(w, cur, new) ==
  LET w1 == getStoredTokenHash(w)
  IN IF w1.ret = "" \/ hashToken(cur) # w1.ret THEN [w1 EXCEPT !.ret = FALSE]
     ELSE [w1 EXCEPT !.st.exists = TRUE, !.st.hash = hashToken(new), !.ret = TRUE]

\* token.ts deleteToken: the auth entry leaves the JSON config, the legacy
\* file is unlinked; ret is whether either was there
deleteToken(w) ==
  [w EXCEPT !.st.hash = "", !.st.legacy = "",
            !.ret = (w.st.hash # "" \/ w.st.legacy # "")]

\* auth.ts authMiddleware: the request passes iff it carries a token that verifies
authMiddleware(t) == t # NoToken /\ t # "" /\ verifyToken(World, t).ret

\* ------------------------------------------------------------- the hub
\* websocket.ts sendMessage: ws.send in a try/catch; a broken socket drops it
sendMessage(w, c, frame) ==
  IF w.cn[c].state = "broken" THEN w
  ELSE [w EXCEPT !.ob[c] = Append(@, frame)]

\* a broadcastToSession that drops the whole set when one send throws
broadcastToSession_EvictsAll(w, id, frame) ==
  LET sc == ClientsOf(w.cl, id)
      ok == {c \in sc : w.cn[c].state # "broken"}
  IN IF sc = {} THEN w
     ELSE [w EXCEPT
             !.ob = [c \in Conns |-> IF c \in ok THEN Append(w.ob[c], frame)
                                     ELSE w.ob[c]],
             !.cl = IF ok # sc THEN Without(w.cl, id) ELSE w.cl]

\* websocket.ts broadcastToSession: send to every socket of the set, evict the
\* sockets whose send throws, delete the key when the set is left empty
broadcastToSession(w, id, frame) ==
  LET sc == ClientsOf(w.cl, id)
      ok == {c \in sc : w.cn[c].state # "broken"}
  IN IF sc = {} THEN w
     ELSE [w EXCEPT
             !.ob = [c \in Conns |-> IF c \in ok THEN Append(w.ob[c], frame)
                                     ELSE w.ob[c]],
             !.cl = IF ok = {} THEN Without(w.cl, id)
                    ELSE [w.cl EXCEPT ![id] = ok]]

\* terminal.ts unregisterCallbacks
unregisterCallbacks(w, id) == [w EXCEPT !.cb = @ \ {id}]

\* a removeClient that ends the session when its last socket leaves
removeClient_Terminates(w, id, c) ==
  LET sc == ClientsOf(w.cl, id)
      left == sc \ {c}
  IN IF sc = {} THEN w
     ELSE IF left = {}
          THEN LET w1 == [w EXCEPT !.cl = Without(w.cl, id), !.cb = @ \ {id}]
               IN IF id \in DOMAIN w1.s /\ w1.s[id].process # 0
                  THEN [w1 EXCEPT !.p[w1.s[id].process].state = "killed",
                                  !.s[id].process = 0,
                                  !.s[id].status = "terminated"]
                  ELSE w1
          ELSE [w EXCEPT !.cl[id] = left]

\* websocket.ts removeClient
removeClient(w, id, c) ==
  LET sc == ClientsOf(w.cl, id)
      left == sc \ {c}
  IN IF sc = {} THEN w
     ELSE IF left = {}
          THEN unregisterCallbacks([w EXCEPT !.cl = Without(w.cl, id)], id)
          ELSE [w EXCEPT !.cl[id] = left]

\* websocket.ts closeSessionClients: close every socket of the set, delete
\* the key, unregister the callbacks.  The close event of a socket the hub
\* closed finds the socket in no set, so its removeClient changes nothing.
closeSessionClients(w, id) ==
  LET sc == ClientsOf(w.cl, id)
  IN IF sc = {} THEN w
     ELSE unregisterCallbacks(
            [w EXCEPT !.cn = [c \in Conns |->
                                IF c \in sc THEN [w.cn[c] EXCEPT !.state = "closed"]
                                ELSE w.cn[c]],
                      !.cl = Without(w.cl, id)], id)

\* The callbacks handleInit passes to initializeTerminal; all four close over
\* sessionId only, so a stored callbacks object is known by its session id.
\* an onOutput that sends every chunk twice
onOutput_Twice(w, id, chunk) ==
  broadcastToSession(broadcastToSession(w, id, [type |-> "output", chunk |-> chunk]),
                     id, [type |-> "output", chunk |-> chunk])

onOutput(w, id, chunk) == broadcastToSession(w, id, [type |-> "output", chunk |-> chunk])
onStatusChange(w, id, st) == broadcastToSession(w, id, [type |-> "status", status |-> st])
onError(w, id) == broadcastToSession(w, id, [type |-> "error", scope |-> "session"])
onExit(w, id, p) ==
  LET w1 == broadcastToSession(w, id, [type |-> "exit", pty |-> p])
  IN [w1 EXCEPT !.tm[id] = @ + 1]

\* --------------------------------------------------------- the registry
\* terminal.ts trimSessionHistory: shift chunks while the total exceeds the cap
RECURSIVE trimSessionHistory(_)
trimSessionHistory(h) ==
  IF SumSizes(h) > MAX_HISTORY_SIZE /\ Len(h) > 0
  THEN trimSessionHistory(Tail(h))
  ELSE h

\* terminal.ts createSession: the record stored under a fresh id
NewSession(path) == [status |-> "created", process |-> 0, lastActivity |-> now,
                     outputHistory |-> <<>>, path |-> path]

\* a startPty whose catch reports the status before the error
startPty_StatusFirst(w, id, spawnOk) ==
  IF id \notin DOMAIN w.s THEN [w EXCEPT !.ret = FALSE]
  ELSE IF spawnOk
  THEN LET p == Len(w.p) + 1
           w1 == [w EXCEPT
                    !.p = Append(@, [sid |-> id, state |-> "live", emitted |-> 0,
                                     cb |-> id \in w.cb]),
                    !.io = Append(@, [op |-> "spawn", pty |-> p]),
                    !.s[id].process = p,
                    !.s[id].status = "running",
                    !.s[id].lastActivity = now,
                    !.s[id].outputHistory = <<>>]
           w2 == IF id \in w1.cb THEN onStatusChange(w1, id, "running") ELSE w1
       IN [w2 EXCEPT !.ret = TRUE]
  ELSE LET w1 == [w EXCEPT !.s[id].status = "exited"]
           w2 == IF id \in w1.cb
                 THEN onError(onStatusChange(w1, id, "exited"), id)
                 ELSE w1
       IN [w2 EXCEPT !.ret = FALSE]

\* terminal.ts startPty; spawnOk is whether bun-pty's spawn returns or throws.
\* The handlers set on the child capture the callbacks stored at this moment.
startPty(w, id, spawnOk) ==
  IF id \notin DOMAIN w.s THEN [w EXCEPT !.ret = FALSE]
  ELSE IF spawnOk
  THEN LET p == Len(w.p) + 1
           w1 == [w EXCEPT
                    !.p = Append(@, [sid |-> id, state |-> "live", emitted |-> 0,
                                     cb |-> id \in w.cb]),
                    !.io = Append(@, [op |-> "spawn", pty |-> p]),
                    !.s[id].process = p,
                    !.s[id].status = "running",
                    !.s[id].lastActivity = now,
                    !.s[id].outputHistory = <<>>]
           w2 == IF id \in w1.cb THEN onStatusChange(w1, id, "running") ELSE w1
       IN [w2 EXCEPT !.ret = TRUE]
  ELSE LET w1 == [w EXCEPT !.s[id].status = "exited"]
           w2 == IF id \in w1.cb
                 THEN onStatusChange(onError(w1, id), id, "exited")
                 ELSE w1
       IN [w2 EXCEPT !.ret = FALSE]

\* an initializeTerminal without the test of session.process
initializeTerminal_Respawns(w, id, spawnOk) ==
  IF id \notin DOMAIN w.s THEN [w EXCEPT !.ret = FALSE]
  ELSE startPty([w EXCEPT !.cb = @ \cup {id}], id, spawnOk)

\* terminal.ts initializeTerminal
initializeTerminal(w, id, spawnOk) ==
  IF id \notin DOMAIN w.s THEN [w EXCEPT !.ret = FALSE]
  ELSE IF w.s[id].process # 0 THEN [w EXCEPT !.ret = TRUE]
  ELSE startPty([w EXCEPT !.cb = @ \cup {id}], id, spawnOk)

\* a writeToTerminal that writes and leaves lastActivity alone
writeToTerminal_NoTouch(w, id) ==
  IF id \notin DOMAIN w.s \/ w.s[id].process = 0 THEN w
  ELSE [w EXCEPT !.io = Append(@, [op |-> "write", pty |-> w.s[id].process])]

\* terminal.ts writeToTerminal
writeToTerminal(w, id) ==
  IF id \notin DOMAIN w.s \/ w.s[id].process = 0 THEN w
  ELSE [w EXCEPT !.s[id].lastActivity = now,
                 !.io = Append(@, [op |-> "write", pty |-> w.s[id].process])]

\* terminal.ts resizeTerminal
resizeTerminal(w, id, cols, rows) ==
  IF id \notin DOMAIN w.s \/ w.s[id].process = 0 THEN w
  ELSE [w EXCEPT !.s[id].lastActivity = now,
                 !.io = Append(@, [op |-> "resize", pty |-> w.s[id].process,
                                   cols |-> cols, rows |-> rows])]

\* a terminateSession that records the reason only when it killed a child and
\* 'exited' when it found none
terminateSession_ExitedIfNoPty(w, id, reason) ==
  IF id \notin DOMAIN w.s THEN [w EXCEPT !.ret = FALSE]
  ELSE LET pr == w.s[id].process
           st == IF pr # 0 THEN reason ELSE "exited"
           w1 == IF pr # 0
                 THEN [w EXCEPT !.p[pr].state = "killed",
                                !.io = Append(@, [op |-> "kill", pty |-> pr])]
                 ELSE w
           w2 == [w1 EXCEPT !.s[id].process = 0,
                            !.s[id].status = st,
                            !.s[id].lastActivity = now]
           w3 == IF id \in w2.cb THEN onStatusChange(w2, id, st) ELSE w2
       IN [w3 EXCEPT !.ret = TRUE]

\* terminateSession that sets the status but keeps the handle of the killed child
terminateSession_KeepsHandle(w, id, reason) ==
  IF id \notin DOMAIN w.s THEN [w EXCEPT !.ret = FALSE]
  ELSE LET pr == w.s[id].process
           w1 == IF pr # 0
                 THEN [w EXCEPT !.p[pr].state = "killed",
                                !.io = Append(@, [op |-> "kill", pty |-> pr])]
                 ELSE w
           w2 == [w1 EXCEPT !.s[id].status = reason,
                            !.s[id].lastActivity = now]
       IN [w2 EXCEPT !.ret = TRUE]

\* terminal.ts terminateSession; ret is whether the record was found
terminateSession(w, id, reason) ==
  IF id \notin DOMAIN w.s THEN [w EXCEPT !.ret = FALSE]
  ELSE LET pr == w.s[id].process
           w1 == IF pr # 0
                 THEN [w EXCEPT !.p[pr].state = "killed",
                                !.io = Append(@, [op |-> "kill", pty |-> pr])]
                 ELSE w
           w2 == [w1 EXCEPT !.s[id].process = 0,
                            !.s[id].status = reason,
                            !.s[id].lastActivity = now]
           w3 == IF id \in w2.cb THEN onStatusChange(w2, id, reason) ELSE w2
       IN [w3 EXCEPT !.ret = TRUE]

\* terminal.ts deleteSession; ret is what sessions.delete returns
deleteSession(w, id) ==
  LET w1 == terminateSession(w, id, "terminated")
  IN [w1 EXCEPT !.cb = @ \ {id},
                !.s = Without(@, id),
                !.ret = id \in DOMAIN w1.s]

\* terminal.ts startHeartbeat's interval callback: the sessions it terminates
IdleSessions(w) ==
  {id \in DOMAIN w.s : w.s[id].status = "running"
                        /\ now - w.s[id].lastActivity > SESSION_TIMEOUT}

\* the interval callback's loop over the map, in insertion (id) order
RECURSIVE heartbeatScan(_, _)
heartbeatScan(w, id) ==
  IF id \notin Ids THEN w
  ELSE heartbeatScan(IF id \in IdleSessions(w)
                     THEN terminateSession(w, id, "terminated")
                     ELSE w, id + 1)

\* ---------------------------------------------------------------- state
NoConn == [state |-> "none", kind |-> "session", sessionId |-> 0,
           initialized |-> FALSE, token |-> NoToken, unsubscribe |-> FALSE]

\* the words of a command line, the words that contain '--workdir', the
\* command lines of at most MaxWords words, and working directories
Words == {"claude", "--workdir", "--workdir=/srv", "/srv"}
WorkdirWords == {"--workdir", "--workdir=/srv"}
Commands == UNION {[1..n -> Words] : n \in 0..MaxWords}
Cwds == {"/home", "/tmp"}

\* A command line is the sequence of its words, the whitespace between them
\* left out; the shell command parseCommand builds is `cd "<dir>" && <run>`.
\* terminal.ts parseCommand: command.includes('--workdir')
includesWorkdir(command) ==
  \E i \in DOMAIN command : command[i] \in WorkdirWords

\* terminal.ts parseCommand: command.match(/--workdir\s+(\S+)/), the position
\* of the first '--workdir' that a word follows (0 is null)
match(command) ==
  IF \E i \in 1..(Len(command) - 1) : command[i] = "--workdir"
  THEN CHOOSE i \in 1..(Len(command) - 1) :
         /\ command[i] = "--workdir"
         /\ \A j \in 1..(i - 1) : command[j] # "--workdir"
  ELSE 0

\* terminal.ts parseCommand: command.replace(/--workdir\s+(\S+)/, '').trim()
replace(command) ==
  IF match(command) = 0 THEN command
  ELSE SubSeq(command, 1, match(command) - 1)
         \o SubSeq(command, match(command) + 2, Len(command))

\* terminal.ts parseCommand
parseCommand(command, cwd) ==
  IF command = <<"claude">> \/ command = <<>>
  THEN [dir |-> cwd, run |-> <<"claude">>]
  ELSE IF includesWorkdir(command)
  THEN [dir |-> IF match(command) # 0 THEN command[match(command) + 1] ELSE cwd,
        run |-> IF replace(command) # <<>> THEN replace(command) ELSE command]
  ELSE [dir |-> cwd, run |-> command]

NoReply == [route |-> "none", status |-> 0, args |-> <<>>]

NoGuard == [path |-> <<>>, ok |-> FALSE, called |-> FALSE]

NoLaunch == [command |-> <<>>, cwd |-> "", called |-> FALSE, dir |-> "", run |-> <<>>]

InitState ==
  /\ sessions = <<>>
  /\ sessionCallbacks = {}
  /\ heartbeatTimer = FALSE
  /\ nextId = 0
  /\ ptys = <<>>
  /\ clients = <<>>
  /\ conn = [c \in Conns |-> NoConn]
  /\ outbox = [c \in Conns |-> <<>>]
  /\ seen = [c \in Conns |-> {}]
  /\ ptyOps = <<>>
  /\ timers = [id \in Ids |-> 0]
  /\ now = 0
  /\ clockAdvances = 0
  /\ reply = NoReply
  /\ devPty = 0
  /\ devPtys = <<>>
  /\ devClients = <<>>
  /\ devHistory = <<>>
  /\ stopped = FALSE
  /\ guard = NoGuard
  /\ launch = NoLaunch

\* the token GoodToken is set in the JSON config, no legacy file
TokenSet ==
  /\ tokenHash = hashToken(GoodToken)
  /\ configExists = TRUE
  /\ legacyHash = ""

\* no allow-list configured: every path is allowed
Init == InitState /\ TokenSet /\ allowedDirs = <<>>

\* any configured allow-list
InitGuard == InitState /\ TokenSet /\ allowedDirs \in AllowLists

FrameTypes(q) == {q[i].type : i \in DOMAIN q}

\* the frame types whose order on one socket the protocol fixes
OrderedTypes == {"ready", "history", "exit"}

\* the frames of the handler before this one count as delivered; cn is the
\* sockets' next state: a socket that is not open yet or is closed has none
Delivered(cn) ==
  [c \in Conns |-> IF cn[c].state \in {"none", "upgraded", "closed"}
                   THEN {}
                   ELSE seen[c] \cup (FrameTypes(outbox[c]) \cap OrderedTypes)]

\* a child after its exit: the adapter keeps nothing of it
ExitedPty(id) == [sid |-> id, state |-> "exited", emitted |-> 0, cb |-> FALSE]

\* the handler's final state written back; no handler runs after process.exit
Commit(w) ==
  /\ ~stopped
  /\ stopped' = w.halt
  /\ tokenHash' = w.st.hash
  /\ configExists' = w.st.exists
  /\ legacyHash' = w.st.legacy
  /\ reply' = w.rp
  /\ devPty' = w.dp
  /\ devPtys' = w.dps
  /\ devClients' = w.dc
  /\ devHistory' = w.dh
  /\ sessions' = w.s
  /\ sessionCallbacks' = w.cb
  /\ ptys' = w.p
  /\ clients' = w.cl
  /\ conn' = w.cn
  /\ outbox' = w.ob
  /\ seen' = Delivered(w.cn)
  /\ ptyOps' = w.io
  /\ timers' = w.tm
  /\ UNCHANGED <<allowedDirs, guard, launch>>

\* ------------------------------------------------------------ HTTP surface
\* api/sessions.ts POST / behind authMiddleware: the path is required, must
\* pass validatePath against config.allowedDirs and must be listable (dirExists
\* is whether listDir returns); then terminal.ts createSession.  At most cap
\* sessions are created.
\* a POST / that creates the session before it lists the directory
HttpPostSessionUpTo_CreatesFirst(tok, path, dirExists, cap) ==
  LET status == IF ~authMiddleware(tok) THEN 401
                ELSE IF path = <<>> THEN 400
                ELSE IF ~validatePath(path, allowedDirs) THEN 403
                ELSE IF ~dirExists THEN 400
                ELSE 201
      created == authMiddleware(tok) /\ path # <<>> /\ validatePath(path, allowedDirs)
      w == [World EXCEPT !.rp = [route |-> "sessions", status |-> status,
                                 args |-> <<>>]]
  IN IF created
     THEN /\ nextId < cap
          /\ nextId' = nextId + 1
          /\ Commit([w EXCEPT !.s = @ @@ ((nextId + 1) :> NewSession(path))])
          /\ heartbeatTimer' = TRUE
          /\ UNCHANGED <<now, clockAdvances>>
     ELSE /\ Commit(w)
          /\ UNCHANGED <<heartbeatTimer, nextId, now, clockAdvances>>

HttpPostSessionUpTo(tok, path, dirExists, cap) ==
  LET status == IF ~authMiddleware(tok) THEN 401
                ELSE IF path = <<>> THEN 400
                ELSE IF ~validatePath(path, allowedDirs) THEN 403
                ELSE IF ~dirExists THEN 400
                ELSE 201
      w == [World EXCEPT !.rp = [route |-> "sessions", status |-> status,
                                 args |-> <<>>]]
  IN IF status = 201
     THEN /\ nextId < cap
          /\ nextId' = nextId + 1
          /\ Commit([w EXCEPT !.s = @ @@ ((nextId + 1) :> NewSession(path))])
          /\ heartbeatTimer' = TRUE
          /\ UNCHANGED <<now, clockAdvances>>
     ELSE /\ Commit(w)
          /\ UNCHANGED <<heartbeatTimer, nextId, now, clockAdvances>>

HttpPostSession(tok, path, dirExists) ==
  HttpPostSessionUpTo(tok, path, dirExists, MaxSessions)

\* POST / for a directory that exists
HttpCreateSession(tok) == HttpPostSession(tok, HomePath, TRUE)

\* validatePath applied to a path under the configured allow-list
ValidatePath(path) ==
  /\ ~stopped
  /\ guard' = [path |-> path, ok |-> validatePath(path, allowedDirs), called |-> TRUE]
  /\ UNCHANGED <<sessions, sessionCallbacks, heartbeatTimer, nextId, ptys, clients,
                 conn, outbox, seen, ptyOps, timers, now, clockAdvances, tokenHash,
                 configExists, legacyHash, reply, devPty, devPtys, devClients,
                 devHistory, stopped, allowedDirs, launch>>

\* terminal.ts startPty: parseCommand(command, cwd), the shell command of the
\* child to spawn
ParseCommand(command, cwd) ==
  /\ ~stopped
  /\ launch' = [command |-> command, cwd |-> cwd, called |-> TRUE,
                dir |-> parseCommand(command, cwd).dir,
                run |-> parseCommand(command, cwd).run]
  /\ UNCHANGED <<sessions, sessionCallbacks, heartbeatTimer, nextId, ptys, clients,
                 conn, outbox, seen, ptyOps, timers, now, clockAdvances, tokenHash,
                 configExists, legacyHash, reply, devPty, devPtys, devClients,
                 devHistory, stopped, allowedDirs, guard>>

\* api/sessions.ts POST /:id/stop
HttpStopSession(tok, id) ==
  /\ authMiddleware(tok)
  /\ Commit(terminateSession(World, id, "terminated"))
  /\ UNCHANGED <<heartbeatTimer, nextId, now, clockAdvances>>

\* api/sessions.ts DELETE /:id
HttpDeleteSession(tok, id) ==
  /\ authMiddleware(tok)
  /\ Commit(deleteSession(World, id))
  /\ UNCHANGED <<heartbeatTimer, nextId, now, clockAdvances>>

\* ------------------------------------------------------------- the reaper
\* terminal.ts startHeartbeat: the setInterval callback
HeartbeatTick ==
  /\ heartbeatTimer
  /\ Commit(heartbeatScan(World, 1))
  /\ UNCHANGED <<heartbeatTimer, nextId, now, clockAdvances>>

AdvanceClock(d) ==
  /\ clockAdvances < MaxClock
  /\ now' = now + d
  /\ clockAdvances' = clockAdvances + 1
  /\ Commit(World)
  /\ UNCHANGED <<heartbeatTimer, nextId>>

\* ------------------------------------------------------- PTY child events
\* terminal.ts startPty: the ptyProcess.onData handler
\* (a child emits at most cap chunks).  The adapter decodes the child's UTF-8
\* bytes to a string: length characters of the Basic Multilingual Plane, each
\* width bytes long in the stream, give a string of that length.
PtyData(p, length, width, cap) ==
  /\ p \in DOMAIN ptys
  /\ ptys[p].state # "exited"
  /\ ptys[p].emitted < cap
  /\ LET id == ptys[p].sid
         chunk == [pty |-> p, n |-> ptys[p].emitted + 1,
                   length |-> length, bytes |-> length * width]
         w0 == [World EXCEPT !.p[p].emitted = @ + 1]
         w1 == IF Present(id) THEN [w0 EXCEPT !.s[id].lastActivity = now] ELSE w0
         w2 == IF ptys[p].cb THEN onOutput(w1, id, chunk) ELSE w1
         w3 == IF Present(id)
               THEN [w2 EXCEPT !.s[id].outputHistory =
                                  trimSessionHistory(Append(@, chunk))]
               ELSE w2
     IN Commit(w3)
  /\ UNCHANGED <<heartbeatTimer, nextId, now, clockAdvances>>

\* terminal.ts startPty: the ptyProcess.onExit handler
PtyExit(p) ==
  /\ p \in DOMAIN ptys
  /\ ptys[p].state # "exited"
  /\ LET id == ptys[p].sid
         w0 == [World EXCEPT !.p[p] = ExitedPty(id)]
         w1 == IF Present(id)
               THEN [w0 EXCEPT !.s[id].process = 0,
                               !.s[id].status = "exited",
                               !.s[id].lastActivity = now]
               ELSE w0
         w2 == IF ptys[p].cb
               THEN onExit(onStatusChange(w1, id, "exited"), id, p)
               ELSE w1
     IN Commit(w2)
  /\ UNCHANGED <<heartbeatTimer, nextId, now, clockAdvances>>

\* websocket.ts handleInit.onExit: the setTimeout callback
GraceTimerFire(id) ==
  /\ timers[id] > 0
  /\ Commit(closeSessionClients([World EXCEPT !.tm[id] = @ - 1], id))
  /\ UNCHANGED <<heartbeatTimer, nextId, now, clockAdvances>>

\* ------------------------------------------------- WebSocket connections
\* websocket.ts getUpgradeData: only the sessionId parameter is read; 0 is null
getUpgradeData(id) == IF id \in DOMAIN sessions THEN id ELSE 0

\* index.ts Bun.serve fetch, /ws: getUpgradeData, then server.upgrade.  tok is
\* the token parameter of the request URL.  A free slot stands for a new socket
\* once no dev-terminal callback refers to the slot's last socket.
WsUpgrade(c, id, tok) ==
  /\ conn[c].state \in {"none", "closed"}
  /\ \A i \in DOMAIN devClients : devClients[i] # c
  /\ getUpgradeData(id) # 0
  /\ Commit([World EXCEPT !.cn[c] = [state |-> "upgraded", kind |-> "session",
                                      sessionId |-> getUpgradeData(id),
                                      initialized |-> FALSE, token |-> tok,
                                      unsubscribe |-> FALSE]])
  /\ UNCHANGED <<heartbeatTimer, nextId, now, clockAdvances>>

\* index.ts Bun.serve fetch, /ws/dev: server.upgrade with data {type: 'dev'}
WsUpgradeDev(c, tok) ==
  /\ conn[c].state \in {"none", "closed"}
  /\ \A i \in DOMAIN devClients : devClients[i] # c
  /\ Commit([World EXCEPT !.cn[c] = [state |-> "upgraded", kind |-> "dev",
                                      sessionId |-> 0,
                                      initialized |-> FALSE, token |-> tok,
                                      unsubscribe |-> FALSE]])
  /\ UNCHANGED <<heartbeatTimer, nextId, now, clockAdvances>>

\* websocket.ts websocketHandlers.open
wsOpen(w, c) ==
  LET id == w.cn[c].sessionId
  IN [w EXCEPT !.cn[c].state = "open",
               !.cl = IF id \in DOMAIN w.cl
                      THEN [w.cl EXCEPT ![id] = @ \cup {c}]
                      ELSE w.cl @@ (id :> {c})]

\* index.ts websocket.close, dev socket: ws.data.unsubscribe?.() deletes the
\* callback the socket's last init subscribed
unsubscribe(w, c) ==
  LET at == {i \in DOMAIN w.dc : w.dc[i] = c}
  IN IF ~w.cn[c].unsubscribe \/ at = {} THEN w
     ELSE LET k == CHOOSE i \in at : \A j \in at : j <= i
          IN [w EXCEPT !.dc = SubSeq(w.dc, 1, k - 1) \o SubSeq(w.dc, k + 1, Len(w.dc))]

\* index.ts websocket.open: a dev socket needs no action on open
WsOpen(c) ==
  /\ conn[c].state = "upgraded"
  /\ Commit(IF conn[c].kind = "dev"
            THEN [World EXCEPT !.cn[c].state = "open"]
            ELSE wsOpen(World, c))
  /\ UNCHANGED <<heartbeatTimer, nextId, now, clockAdvances>>

\* the network under a socket fails: its sends throw from now on
SocketBreak(c) ==
  /\ conn[c].state = "open"
  /\ Commit([World EXCEPT !.cn[c].state = "broken"])
  /\ UNCHANGED <<heartbeatTimer, nextId, now, clockAdvances>>

\* websocket.ts websocketHandlers.close / error: the peer closed or failed
WsClose(c) ==
  /\ conn[c].state \in {"open", "broken"}
  /\ Commit(IF conn[c].kind = "dev"
            THEN unsubscribe([World EXCEPT !.cn[c].state = "closed"], c)
            ELSE removeClient([World EXCEPT !.cn[c].state = "closed"],
                              conn[c].sessionId, c))
  /\ UNCHANGED <<heartbeatTimer, nextId, now, clockAdvances>>

\* websocket.ts handleInit
handleInit(w, c, id, spawnOk) ==
  IF w.cn[c].initialized
  THEN sendMessage(w, c, [type |-> "ready"])
  ELSE LET w1 == initializeTerminal(w, id, spawnOk)
       IN IF w1.ret
          THEN sendMessage([w1 EXCEPT !.cn[c].initialized = TRUE], c, [type |-> "ready"])
          ELSE sendMessage(w1, c, [type |-> "error", scope |-> "init"])

\* handleMessage whose 'input' case lacks the initialized check
handleInput_NoInitCheck(w, c, id) == writeToTerminal(w, id)

\* websocket.ts handleMessage, case 'input'
handleInput(w, c, id) ==
  IF ~w.cn[c].initialized
  THEN sendMessage(w, c, [type |-> "error", scope |-> "not-initialized"])
  ELSE writeToTerminal(w, id)

\* websocket.ts handleMessage, case 'resize'
handleResize(w, c, id, cols, rows) ==
  IF ~w.cn[c].initialized THEN w ELSE resizeTerminal(w, id, cols, rows)

\* websocket.ts handleMessage, case 'ping'
handlePing(w, c) == sendMessage(w, c, [type |-> "pong"])

\* cols and rows a client may put into a resize message, and the size of an
\* ordinary terminal
Dims == {0, 1, 1000, 1001}
DefaultCols == 80
DefaultRows == 24

\* a socket of the session hub that may deliver a message
IsSessionSocket(c) == conn[c].state = "open" /\ conn[c].kind = "session"

\* websocket.ts websocketHandlers.message -> handleMessage, by message type
\* (an init whose spawn succeeds is sent only while fewer than cap children
\* were spawned)

HandleInit(c, spawnOk, cap) ==
  /\ IsSessionSocket(c)
  /\ spawnOk => Len(ptys) < cap
  /\ Commit(handleInit(World, c, conn[c].sessionId, spawnOk))
  /\ UNCHANGED <<heartbeatTimer, nextId, now, clockAdvances>>

HandleInput(c) ==
  /\ IsSessionSocket(c)
  /\ Commit(handleInput(World, c, conn[c].sessionId))
  /\ UNCHANGED <<heartbeatTimer, nextId, now, clockAdvances>>

HandleResize(c, cols, rows) ==
  /\ IsSessionSocket(c)
  /\ Commit(handleResize(World, c, conn[c].sessionId, cols, rows))
  /\ UNCHANGED <<heartbeatTimer, nextId, now, clockAdvances>>

HandlePing(c) ==
  /\ IsSessionSocket(c)
  /\ Commit(handlePing(World, c))
  /\ UNCHANGED <<heartbeatTimer, nextId, now, clockAdvances>>

\* ------------------------------------------------------------- /api/auth
\* api/auth.ts: none of the router's handlers runs behind authMiddleware.
AuthReply(route, status, args) == [route |-> route, status |-> status, args |-> args]

\* api/auth.ts POST /init
HttpAuthInit(t) ==
  /\ LET w1 == createToken(World, t)
     IN Commit(IF t = "" \/ Len(t) < 8
               THEN [World EXCEPT !.rp = AuthReply("init", 400, <<t>>)]
               ELSE [w1 EXCEPT !.rp = AuthReply("init", IF w1.ret THEN 201 ELSE 409,
                                                <<t>>)])
  /\ UNCHANGED <<heartbeatTimer, nextId, now, clockAdvances>>

\* api/auth.ts POST /verify
HttpAuthVerify(t) ==
  /\ LET w1 == verifyToken(World, t)
     IN Commit(IF t = ""
               THEN [World EXCEPT !.rp = AuthReply("verify", 400, <<t>>)]
               ELSE [w1 EXCEPT !.rp = AuthReply("verify", IF w1.ret THEN 200 ELSE 401,
                                                <<t>>)])
  /\ UNCHANGED <<heartbeatTimer, nextId, now, clockAdvances>>

\* api/auth.ts PUT /
HttpAuthRotate(cur, new) ==
  /\ LET w1 == updateToken(World, cur, new)
     IN Commit(IF cur = "" \/ new = "" \/ Len(new) < 8
               THEN [World EXCEPT !.rp = AuthReply("rotate", 400, <<cur, new>>)]
               ELSE [w1 EXCEPT !.rp = AuthReply("rotate", IF w1.ret THEN 200 ELSE 401,
                                                <<cur, new>>)])
  /\ UNCHANGED <<heartbeatTimer, nextId, now, clockAdvances>>

\* api/auth.ts DELETE /; tok is the bearer token of the request, which the
\* handler does not read
HttpAuthDelete(tok) ==
  /\ LET w1 == deleteToken(World)
     IN Commit([w1 EXCEPT !.rp = AuthReply("delete", IF w1.ret THEN 200 ELSE 404,
                                           <<tok>>)])
  /\ UNCHANGED <<heartbeatTimer, nextId, now, clockAdvances>>

\* ------------------------------------------------------- the dev terminal
\* devTerminal.ts trimHistory
RECURSIVE trimHistory(_)
trimHistory(h) ==
  IF SumSizes(h) > MAX_HISTORY_SIZE /\ Len(h) > 0
  THEN trimHistory(Tail(h))
  ELSE h

\* devTerminal.ts getOrCreate; spawnOk is whether bun-pty's spawn returns or
\* throws; ret is what the call returns, or that it threw
getOrCreate(w, spawnOk) ==
  IF w.dp # 0 THEN [w EXCEPT !.ret = [threw |-> FALSE, isNew |-> FALSE]]
  ELSE IF ~spawnOk THEN [w EXCEPT !.ret = [threw |-> TRUE, isNew |-> FALSE]]
  ELSE [w EXCEPT !.dps = Append(@, [state |-> "live", emitted |-> 0]),
                 !.dp = Len(w.dps) + 1,
                 !.io = Append(@, [op |-> "devspawn", pty |-> Len(w.dps) + 1]),
                 !.ret = [threw |-> FALSE, isNew |-> TRUE]]

\* devTerminal.ts subscribe: the callback of socket c joins the set
subscribe(w, c) == [w EXCEPT !.dc = Append(@, c)]

\* devTerminal.ts write
write(w) ==
  IF w.dp = 0 THEN w ELSE [w EXCEPT !.io = Append(@, [op |-> "devwrite", pty |-> w.dp])]

\* devTerminal.ts resize
resize(w, cols, rows) ==
  IF w.dp = 0 THEN w
  ELSE [w EXCEPT !.io = Append(@, [op |-> "devresize", pty |-> w.dp,
                                   cols |-> cols, rows |-> rows])]

\* devTerminal.ts kill
kill(w) ==
  IF w.dp = 0 THEN w
  ELSE [w EXCEPT !.dps[w.dp].state = "killed",
                 !.io = Append(@, [op |-> "devkill", pty |-> w.dp]),
                 !.dp = 0]

\* index.ts websocket.message, dev socket, case 'init': a spawn that throws
\* leaves the handler through its catch
devInit(w, c, spawnOk) ==
  LET w1 == getOrCreate(w, spawnOk)
  IN IF w1.ret.threw THEN w1
     ELSE sendMessage([subscribe(w1, c) EXCEPT !.cn[c].unsubscribe = TRUE], c,
                      [type |-> "ready", isNew |-> w1.ret.isNew])

\* index.ts websocket.message, dev socket, case 'kill'
devKill(w, c) == sendMessage(kill(w), c, [type |-> "killed"])

\* devTerminal.ts getOrCreate, onData: clients.forEach over the callbacks in
\* insertion order, each a ws.send on its socket.  A send on a socket that is
\* not open fails; throws is whether that failure is an exception, which ends
\* the handler.  ret is whether the loop ran to its end.
RECURSIVE forEachClient(_, _, _, _)
forEachClient(w, i, frame, throws) ==
  IF i > Len(w.dc) THEN [w EXCEPT !.ret = TRUE]
  ELSE IF w.cn[w.dc[i]].state = "open"
  THEN forEachClient([w EXCEPT !.ob[w.dc[i]] = Append(@, frame)], i + 1, frame, throws)
  ELSE IF throws THEN [w EXCEPT !.ret = FALSE]
  ELSE forEachClient(w, i + 1, frame, throws)

\* a dev socket that may deliver a message
IsDevSocket(c) == conn[c].state = "open" /\ conn[c].kind = "dev"

DevInit(c, spawnOk) ==
  /\ IsDevSocket(c)
  /\ spawnOk => Len(devPtys) < MaxDevSpawns
  /\ Len(devClients) < MaxDevSubs
  /\ Commit(devInit(World, c, spawnOk))
  /\ UNCHANGED <<heartbeatTimer, nextId, now, clockAdvances>>

\* index.ts websocket.message, dev socket, case 'input'
DevInput(c) ==
  /\ IsDevSocket(c)
  /\ Commit(write(World))
  /\ UNCHANGED <<heartbeatTimer, nextId, now, clockAdvances>>

\* index.ts websocket.message, dev socket, case 'resize'
DevResize(c, cols, rows) ==
  /\ IsDevSocket(c)
  /\ Commit(resize(World, cols, rows))
  /\ UNCHANGED <<heartbeatTimer, nextId, now, clockAdvances>>

DevKill(c) ==
  /\ IsDevSocket(c)
  /\ Commit(devKill(World, c))
  /\ UNCHANGED <<heartbeatTimer, nextId, now, clockAdvances>>

\* devTerminal.ts getOrCreate: the devPty.onData handler
DevPtyData(p, throws) ==
  /\ p \in DOMAIN devPtys
  /\ devPtys[p].state # "exited"
  /\ devPtys[p].emitted < MaxChunks
  /\ LET chunk == [pty |-> p, n |-> devPtys[p].emitted + 1,
                   length |-> 60000, bytes |-> 60000]
         w1 == forEachClient([World EXCEPT !.dps[p].emitted = @ + 1], 1,
                             [type |-> "output", chunk |-> chunk], throws)
     IN Commit(IF w1.ret
               THEN [w1 EXCEPT !.dh = trimHistory(Append(@, chunk))]
               ELSE w1)
  /\ UNCHANGED <<heartbeatTimer, nextId, now, clockAdvances>>

\* devTerminal.ts getOrCreate: the devPty.onExit handler
DevPtyExit(p) ==
  /\ p \in DOMAIN devPtys
  /\ devPtys[p].state # "exited"
  /\ Commit([World EXCEPT !.dps[p] = [state |-> "exited", emitted |-> 0],
                          !.dp = 0])
  /\ UNCHANGED <<heartbeatTimer, nextId, now, clockAdvances>>

\* ---------------------------------------------------------------- shutdown
\* terminal.ts cleanupAllSessions: the loop over the map, in insertion (id) order
RECURSIVE cleanupScan(_, _)
cleanupScan(w, id) ==
  IF id \notin Ids THEN w
  ELSE cleanupScan(IF id \in DOMAIN w.s
                   THEN LET w1 == terminateSession(w, id, "terminated")
                        IN [w1 EXCEPT !.s = Without(@, id), !.cb = @ \ {id}]
                   ELSE w, id + 1)

\* terminal.ts cleanupAllSessions, after its stopHeartbeat
cleanupAllSessions(w) == cleanupScan(w, 1)

\* websocket.ts shutdown: close every socket of every set, clear the map
shutdown(w) ==
  LET all == UNION {w.cl[id] : id \in DOMAIN w.cl}
  IN [w EXCEPT !.cn = [c \in Conns |-> IF c \in all
                                      THEN [w.cn[c] EXCEPT !.state = "closed"]
                                      ELSE w.cn[c]],
               !.cl = <<>>]

\* index.ts: the SIGTERM / SIGINT handler, up to process.exit
Shutdown ==
  /\ Commit([shutdown(cleanupAllSessions(World)) EXCEPT !.halt = TRUE])
  /\ heartbeatTimer' = FALSE
  /\ UNCHANGED <<nextId, now, clockAdvances>>

\* ----------------------------------------------------------------- specs
\* The registry with the hub, two sockets, clock stopped.
Next ==
  \/ \E id \in Ids : HttpStopSession(GoodToken, id)
  \/ \E id \in Ids : HttpDeleteSession(GoodToken, id)
  \/ HttpCreateSession(GoodToken)
  \/ \E p \in 1..MaxHubSpawns, length \in {60000} : PtyData(p, length, 1, MaxChunks)
  \/ \E p \in 1..MaxHubSpawns : PtyExit(p)
  \/ \E id \in Ids : GraceTimerFire(id)
  \/ \E c \in Conns, id \in Ids : WsUpgrade(c, id, GoodToken)
  \/ \E c \in Conns : WsOpen(c)
  \/ \E c \in Conns : SocketBreak(c)
  \/ \E c \in Conns : WsClose(c)
  \/ \E c \in Conns, spawnOk \in BOOLEAN : HandleInit(c, spawnOk, MaxHubSpawns)
  \/ \E c \in Conns : HandleInput(c)

Spec == Init /\ [][Next]_vars

\* The registry with the reaper and the clock, one socket slot.
NextRegistry ==
  \/ HttpCreateSession(GoodToken)
  \/ \E id \in Ids : HttpStopSession(GoodToken, id)
  \/ \E id \in Ids : HttpDeleteSession(GoodToken, id)
  \/ HeartbeatTick
  \/ \E d \in ClockSteps : AdvanceClock(d)
  \/ \E p \in 1..MaxSpawns, length \in {60000} : PtyData(p, length, 1, MaxChunks)
  \/ \E p \in 1..MaxSpawns : PtyExit(p)
  \/ \E id \in Ids : GraceTimerFire(id)
  \/ \E id \in Ids : WsUpgrade("c1", id, GoodToken)
  \/ WsOpen("c1")
  \/ WsClose("c1")
  \/ \E spawnOk \in BOOLEAN : HandleInit("c1", spawnOk, MaxSpawns)
  \/ HandleInput("c1")
  \/ HandleResize("c1", DefaultCols, DefaultRows)
  \/ HandlePing("c1")

SpecRegistry == Init /\ [][NextRegistry]_vars

\* The history ring under chunks of every size.
NextHistory ==
  \/ HttpCreateSession(GoodToken)
  \/ \E id \in Ids : HttpStopSession(GoodToken, id)
  \/ \E p \in 1..MaxHubSpawns, length \in ChunkSizes, width \in CharWidths :
       PtyData(p, length, width, MaxHistoryChunks)
  \/ \E p \in 1..MaxHubSpawns : PtyExit(p)
  \/ \E id \in Ids : WsUpgrade("c1", id, GoodToken)
  \/ WsOpen("c1")
  \/ WsClose("c1")
  \/ HandleInit("c1", TRUE, MaxHubSpawns)

SpecHistory == Init /\ [][NextHistory]_vars

\* Admission: requests with any token, on /ws and on /ws/dev.
NextAuth ==
  \/ \E tok \in TokenInputs : HttpCreateSession(tok)
  \/ \E tok \in TokenInputs, id \in Ids : HttpDeleteSession(tok, id)
  \/ \E c \in Conns, id \in Ids, tok \in TokenInputs : WsUpgrade(c, id, tok)
  \/ \E c \in Conns, tok \in TokenInputs : WsUpgradeDev(c, tok)
  \/ \E c \in Conns : WsOpen(c)
  \/ \E c \in Conns : WsClose(c)

SpecAuth == Init /\ [][NextAuth]_vars

\* The output stream: two sockets, children that emit several chunks.
NextStream ==
  \/ HttpCreateSession(GoodToken)
  \/ \E id \in Ids : HttpStopSession(GoodToken, id)
  \/ \E p \in 1..MaxHubSpawns : PtyData(p, 60000, 1, MaxStreamChunks)
  \/ \E p \in 1..MaxHubSpawns : PtyExit(p)
  \/ \E id \in Ids : GraceTimerFire(id)
  \/ \E c \in Conns, id \in Ids : WsUpgrade(c, id, GoodToken)
  \/ \E c \in Conns : WsOpen(c)
  \/ \E c \in Conns : WsClose(c)
  \/ \E c \in Conns : HandleInit(c, TRUE, MaxHubSpawns)

SpecStream == Init /\ [][NextStream]_vars

\* The reaper around its threshold: idle times just below, at and above it.
NextReaper ==
  \/ HttpCreateSession(GoodToken)
  \/ \E id \in Ids : HttpStopSession(GoodToken, id)
  \/ HeartbeatTick
  \/ \E d \in ReaperSteps : AdvanceClock(d)
  \/ \E p \in 1..MaxHubSpawns : PtyData(p, 60000, 1, MaxChunks)
  \/ \E p \in 1..MaxHubSpawns : PtyExit(p)
  \/ \E id \in Ids : GraceTimerFire(id)
  \/ \E id \in Ids : WsUpgrade("c1", id, GoodToken)
  \/ WsOpen("c1")
  \/ WsClose("c1")
  \/ \E spawnOk \in BOOLEAN : HandleInit("c1", spawnOk, MaxHubSpawns)
  \/ HandleInput("c1")

SpecReaper == Init /\ [][NextReaper]_vars

\* The path guard: any allow-list, any path, on the guard and on POST /.
NextGuard ==
  \/ \E path \in Paths : ValidatePath(path)
  \/ \E path \in Paths, dirExists \in BOOLEAN : HttpPostSession(GoodToken, path, dirExists)
  \/ \E id \in Ids : HttpDeleteSession(GoodToken, id)
  \/ \E id \in Ids : WsUpgrade("c1", id, GoodToken)
  \/ WsOpen("c1")
  \/ WsClose("c1")

SpecGuard == InitGuard /\ [][NextGuard]_vars

\* PTY exit and the grace close; the event loop runs every timer that is due.
NextGrace ==
  \/ HttpCreateSession(GoodToken)
  \/ \E id \in Ids : HttpStopSession(GoodToken, id)
  \/ \E id \in Ids : HttpDeleteSession(GoodToken, id)
  \/ \E p \in 1..MaxHubSpawns : PtyExit(p)
  \/ \E id \in Ids : GraceTimerFire(id)
  \/ \E c \in Conns, id \in Ids : WsUpgrade(c, id, GoodToken)
  \/ \E c \in Conns : WsOpen(c)
  \/ \E c \in Conns : SocketBreak(c)
  \/ \E c \in Conns : WsClose(c)
  \/ \E c \in Conns : HandleInit(c, TRUE, MaxHubSpawns)

SpecGrace ==
  Init /\ [][NextGrace]_vars /\ \A id \in Ids : WF_vars(GraceTimerFire(id))

\* POST /api/sessions with any token, any path, any allow-list.
NextPost ==
  \/ \E tok \in TokenInputs, path \in Paths, dirExists \in BOOLEAN :
       HttpPostSession(tok, path, dirExists)
  \/ \E tok \in TokenInputs, id \in Ids : HttpDeleteSession(tok, id)
  \/ HeartbeatTick
  \/ \E id \in Ids : WsUpgrade("c1", id, GoodToken)
  \/ WsOpen("c1")

SpecPost == InitGuard /\ [][NextPost]_vars

\* The token store behind /api/auth: any JSON config, any legacy file.
InitToken ==
  /\ InitState
  /\ allowedDirs = <<>>
  /\ configExists \in BOOLEAN
  /\ tokenHash \in {"", hashToken(GoodToken)}
  /\ tokenHash # "" => configExists
  /\ legacyHash \in LegacyHashes

NextToken ==
  \/ \E t \in AuthInputs : HttpAuthInit(t)
  \/ \E t \in AuthInputs : HttpAuthVerify(t)
  \/ \E cur \in AuthInputs, new \in AuthInputs : HttpAuthRotate(cur, new)
  \/ \E tok \in TokenInputs : HttpAuthDelete(tok)

SpecToken == InitToken /\ [][NextToken]_vars

\* The dev terminal: two sockets on /ws/dev and the shared PTY.
NextDev ==
  \/ \E c \in Conns : WsUpgradeDev(c, GoodToken)
  \/ \E c \in Conns : WsOpen(c)
  \/ \E c \in Conns : WsClose(c)
  \/ \E c \in Conns, spawnOk \in BOOLEAN : DevInit(c, spawnOk)
  \/ \E c \in Conns : DevInput(c)
  \/ \E c \in Conns : DevResize(c, DefaultCols, DefaultRows)
  \/ \E c \in Conns : DevKill(c)
  \/ \E p \in 1..MaxDevSpawns, throws \in BOOLEAN : DevPtyData(p, throws)
  \/ \E p \in 1..MaxDevSpawns : DevPtyExit(p)

SpecDev == Init /\ [][NextDev]_vars

\* Shutdown with sessions and the dev terminal in use.
NextShutdown ==
  \/ HttpPostSessionUpTo(GoodToken, HomePath, TRUE, MaxTwoSessions)
  \/ \E c \in Conns, id \in Ids : WsUpgrade(c, id, GoodToken)
  \/ \E c \in Conns : WsUpgradeDev(c, GoodToken)
  \/ \E c \in Conns : WsOpen(c)
  \/ \E c \in Conns : HandleInit(c, TRUE, MaxHubSpawns)
  \/ \E c \in Conns : DevInit(c, TRUE)
  \/ Shutdown

SpecShutdown == Init /\ [][NextShutdown]_vars

\* Two sessions side by side, spawns that succeed and spawns that fail.
NextTwo ==
  \/ HttpPostSessionUpTo(GoodToken, HomePath, TRUE, MaxTwoSessions)
  \/ \E id \in Ids : HttpStopSession(GoodToken, id)
  \/ \E c \in Conns, id \in Ids : WsUpgrade(c, id, GoodToken)
  \/ \E c \in Conns : WsOpen(c)
  \/ \E c \in Conns : WsClose(c)
  \/ \E c \in Conns, spawnOk \in BOOLEAN : HandleInit(c, spawnOk, MaxHubSpawns)
  \/ \E p \in 1..MaxHubSpawns : PtyExit(p)

SpecTwo == Init /\ [][NextTwo]_vars

\* Resize messages with arbitrary dimensions, on a session socket and on a
\* dev socket.
NextResize ==
  \/ HttpCreateSession(GoodToken)
  \/ \E id \in Ids : WsUpgrade("c1", id, GoodToken)
  \/ WsUpgradeDev("c2", GoodToken)
  \/ \E c \in Conns : WsOpen(c)
  \/ HandleInit("c1", TRUE, MaxSessions)
  \/ DevInit("c2", TRUE)
  \/ \E cols \in Dims, rows \in Dims : HandleResize("c1", cols, rows)
  \/ \E cols \in Dims, rows \in Dims : DevResize("c2", cols, rows)

SpecResize == Init /\ [][NextResize]_vars

\* The shell command of a child, for any command line and working directory.
NextCommand ==
  \E command \in Commands, cwd \in Cwds : ParseCommand(command, cwd)

SpecCommand == Init /\ [][NextCommand]_vars

\* ---------------------------------------------------------------- claims
LivePtys(id) == {p \in DOMAIN ptys : ptys[p].sid = id /\ ptys[p].state = "live"}

\* C1: a session record has status 'running' if and only if its PTY handle
\* is set, in every reachable state of the registry.
C1_RunningIffPty ==
  \A id \in DOMAIN sessions :
    (sessions[id].status = "running") <=> (sessions[id].process # 0)

\* C1 witness: a session running on a respawned child, after a terminate
\* killed an earlier one or an earlier one exited
C1_Witness ==
  \E id \in DOMAIN sessions :
    /\ sessions[id].status = "running"
    /\ sessions[id].process # 0
    /\ \E p \in DOMAIN ptys : ptys[p].sid = id /\ ptys[p].state # "live"

\* C2: at most one PTY child spawned for a session is live (spawned, neither
\* killed nor exited) in any reachable state.
C2_AtMostOneLivePty ==
  \A id \in Ids : Cardinality(LivePtys(id)) <= 1

\* the history ring's trim loop in its own unit: the lengths of the strings
\* held (UTF-16 code units) sum to at most MAX_HISTORY_SIZE
HistoryLengthBounded ==
  \A id \in DOMAIN sessions :
    SumSizes(sessions[id].outputHistory) <= MAX_HISTORY_SIZE

\* C3: the sizes in bytes of the chunks held in a session's history ring sum
\* to at most 100 KiB (MAX_HISTORY_SIZE), whatever chunks the PTY emitted.
C3_HistoryBounded ==
  \A id \in DOMAIN sessions :
    SumBytes(sessions[id].outputHistory) <= MAX_HISTORY_SIZE

\* C4: every socket in the hub's client map is registered under a session id
\* that is present in the registry.
C4_ClientsOfKnownSessions ==
  \A id \in DOMAIN clients : id \in DOMAIN sessions

\* C5: once a record's status is 'exited' or 'terminated' its PTY handle stays
\* null and no handler writes to or resizes a PTY child of that record.
C5_NoIoAfterEnd ==
  [][\A id \in DOMAIN sessions :
       (sessions[id].status \in {"exited", "terminated"} /\ id \in DOMAIN sessions')
       => /\ sessions'[id].process = 0
          /\ \A i \in DOMAIN ptyOps' :
               ptyOps'[i].op \in {"write", "resize"} => ptys'[ptyOps'[i].pty].sid # id]_vars

\* C6: a socket is accepted on /ws or /ws/dev only if its upgrade request
\* carried a token that the Bearer path (authMiddleware) accepts.
C6_UpgradeNeedsToken ==
  \A c \in Conns :
    conn[c].state \in {"upgraded", "open", "broken"} => authMiddleware(conn[c].token)

\* C7: an input message on a socket that has not completed init issues no
\* call on any PTY child and is answered with an error frame to the sender.
C7_InputBeforeInit ==
  [][\A c \in Conns :
       (~conn[c].initialized /\ HandleInput(c))
       => /\ ptyOps' = <<>>
          /\ outbox'[c] = <<[type |-> "error", scope |-> "not-initialized"]>>]_vars

\* C7 witness: the error reply on a socket without init while the session's
\* PTY runs, started by the other socket
C7_Witness ==
  \E c \in Conns, d \in Conns :
    /\ c # d
    /\ conn[c].state = "open" /\ ~conn[c].initialized
    /\ conn[d].state = "open" /\ conn[d].initialized
    /\ conn[c].sessionId = conn[d].sessionId
    /\ conn[c].sessionId \in DOMAIN sessions
    /\ sessions[conn[c].sessionId].process # 0
    /\ outbox[c] = <<[type |-> "error", scope |-> "not-initialized"]>>

ExitFrames(q) == {i \in DOMAIN q : q[i].type = "exit"}

\* C8, one exit event: the exit callback of a child sends exactly one exit frame
\* to every open socket in the session's client set.
C8_OneExitFrame ==
  [][\A p \in DOMAIN ptys :
       PtyExit(p)
       => \A c \in ClientsOf(clients, ptys[p].sid) :
            conn[c].state = "open" => Cardinality(ExitFrames(outbox'[c])) = 1]_vars

\* C8, the grace close: a socket that was sent an exit frame is closed later,
\* the timer being fair
C8_ClosedAfterExit ==
  \A c \in Conns :
    (conn[c].state = "open" /\ ExitFrames(outbox[c]) # {}) ~> (conn[c].state # "open")

\* C8: every client connected when a PTY of its session exits receives
\* exactly one exit frame: a socket is sent the exit frame at most once
\* between its open and its close by the hub.
C8_SingleExitPerSocket ==
  \A c \in Conns :
    /\ Cardinality(ExitFrames(outbox[c])) <= 1
    /\ ExitFrames(outbox[c]) # {} => "exit" \notin seen[c]

SessionScoped == {"output", "status", "error", "ready"}

\* the ordered frame types sent on c before frame i of the last handler
SeenBefore(c, i) == seen[c] \cup {outbox[c][j].type : j \in 1..(i - 1)}

\* C9: on every socket, no output, status, error or ready frame follows the
\* exit frame: exit is the last session-scoped frame before the close.
C9_ExitIsLast ==
  \A c \in Conns : \A i \in DOMAIN outbox[c] :
    outbox[c][i].type \in SessionScoped => "exit" \notin SeenBefore(c, i)

\* C10: on every socket, an output frame is sent only after the ready frame
\* and a history frame were sent on it.
C10_HistoryBeforeOutput ==
  \A c \in Conns : \A i \in DOMAIN outbox[c] :
    outbox[c][i].type = "output"
    => "ready" \in SeenBefore(c, i) /\ "history" \in SeenBefore(c, i)

OutputFrames(q) == {i \in DOMAIN q : q[i].type = "output"}

\* C11: the output frames a socket receives are a subsequence of the chunks
\* emitted, in emission order and without duplicates: a handler sends a socket
\* at most one output frame, and that frame carries the chunk its child emits in
\* that very step (the child's next chunk number, which only grows).
C11_OutputInOrder ==
  [][\A c \in Conns : \A i \in OutputFrames(outbox'[c]) :
       LET ch == outbox'[c][i].chunk
       IN /\ Cardinality(OutputFrames(outbox'[c])) = 1
          /\ ch.pty \in DOMAIN ptys
          /\ ch.n = ptys[ch.pty].emitted + 1
          /\ ptys'[ch.pty].emitted = ch.n]_vars

\* C11 witness: both sockets of a session were just sent the second chunk of
\* a child
C11_Witness ==
  \E c \in Conns, d \in Conns :
    /\ c # d
    /\ OutputFrames(outbox[c]) # {} /\ OutputFrames(outbox[d]) # {}
    /\ \A i \in OutputFrames(outbox[c]) : outbox[c][i].chunk.n = 2

\* C12: the close of a socket, the last one of its session included, changes
\* no session record and no PTY child: status and handle stay as they are
\* and no call is made on a child.
C12_CloseKeepsSession ==
  [][\A c \in Conns : WsClose(c) => (sessions' = sessions /\ ptys' = ptys /\ ptyOps' = <<>>)]_vars

\* C12 witness: a running session whose last socket closed (its callbacks are
\* unregistered, no child of it has exited, no grace close is pending)
C12_Witness ==
  \E id \in DOMAIN sessions, c \in Conns :
    /\ sessions[id].status = "running" /\ sessions[id].process # 0
    /\ id \notin DOMAIN clients /\ id \notin sessionCallbacks
    /\ conn[c].state = "closed" /\ conn[c].sessionId = id
    /\ timers[id] = 0
    /\ \A p \in DOMAIN ptys : ptys[p].state = "live"

\* a socket attached to a running session whose callbacks the hub unregistered
Reattached(c, id) ==
  /\ IsSessionSocket(c) /\ conn[c].sessionId = id
  /\ id \in DOMAIN sessions /\ sessions[id].process # 0
  /\ id \notin sessionCallbacks

HasStatus(q, st) == \E i \in DOMAIN q : q[i] = [type |-> "status", status |-> st]

\* C14: every change of a session's status is sent as a status frame with the
\* new status to the sockets connected to the session at that moment; stated
\* here for the sockets that completed init, those attached after an earlier
\* disconnect of all sockets included.
C14_StatusBroadcast ==
  [][\A id \in DOMAIN sessions, c \in Conns :
       (/\ id \in DOMAIN sessions'
        /\ sessions'[id].status # sessions[id].status
        /\ c \in ClientsOf(clients, id)
        /\ conn[c].state = "open" /\ conn[c].initialized)
       => HasStatus(outbox'[c], sessions'[id].status)]_vars

\* C15: POST /sessions/{id}/stop on a running session keeps the record and
\* sends every socket connected to the session a status frame 'terminated'.
C15_StopNotifies ==
  [][\A id \in DOMAIN sessions, c \in Conns :
       (/\ HttpStopSession(GoodToken, id)
        /\ sessions[id].status = "running"
        /\ c \in ClientsOf(clients, id)
        /\ conn[c].state = "open")
       => (id \in DOMAIN sessions' /\ HasStatus(outbox'[c], "terminated"))]_vars

\* C16: a record whose status is 'terminated' keeps that status when the exit
\* callback of a PTY child is delivered.
C16_ExitKeepsTerminated ==
  [][\A p \in DOMAIN ptys :
       PtyExit(p)
       => \A id \in DOMAIN sessions :
            sessions[id].status = "terminated" => sessions'[id].status = "terminated"]_vars

\* the time a session has been idle for
IdleFor(id) == now - sessions[id].lastActivity

\* C17: a reaper tick takes every session that is 'running' and idle for at
\* least SESSION_TIMEOUT (30 minutes, exactly 30 minutes included) to
\* 'terminated', and leaves every other session as it is.
C17_ReaperTick ==
  [][HeartbeatTick
     => \A id \in DOMAIN sessions :
          IF sessions[id].status = "running" /\ IdleFor(id) >= SESSION_TIMEOUT
          THEN id \in DOMAIN sessions' /\ sessions'[id].status = "terminated"
          ELSE id \in DOMAIN sessions' /\ sessions'[id] = sessions[id]]_vars

\* C18: lastActivity of a record never decreases, and a handler that writes
\* input to the session's child, resizes it or takes an output chunk of it
\* leaves lastActivity at the current time.
C18_LastActivity ==
  [][\A id \in DOMAIN sessions \cap DOMAIN sessions' :
       /\ sessions'[id].lastActivity >= sessions[id].lastActivity
       /\ \A i \in DOMAIN ptyOps' :
            (ptyOps'[i].op \in {"write", "resize"} /\ ptys'[ptyOps'[i].pty].sid = id)
            => sessions'[id].lastActivity = now'
       /\ \A p \in DOMAIN ptys :
            (ptys[p].sid = id /\ ptys'[p].emitted = ptys[p].emitted + 1)
            => sessions'[id].lastActivity = now']_vars

\* C18 witness: input was just written to a child after the clock had moved
\* on from the session's creation
C18_Witness ==
  \E id \in DOMAIN sessions :
    /\ now > 0 /\ sessions[id].lastActivity = now
    /\ \E i \in DOMAIN ptyOps : ptyOps[i].op = "write" /\ ptys[ptyOps[i].pty].sid = id

\* the guard as specified: the allow-list is empty, or the path is an entry,
\* or the path is an entry, a '/', and some rest
GuardAccepts(path, allowed) ==
  \/ allowed = <<>>
  \/ \E i \in DOMAIN allowed :
       \/ path = allowed[i]
       \/ \E k \in 0..Len(path) :
            path = allowed[i] \o <<"/">> \o SubSeq(path, k + 1, Len(path))

\* C19: the path guard accepts p under the allow-list A exactly when A is
\* empty, or p equals an entry a of A, or p starts with a followed by '/'.
C19_GuardAccepts ==
  guard.called => (guard.ok <=> GuardAccepts(guard.path, allowedDirs))

\* C19 witness: a path accepted as lying under an entry, not as the entry
C19_Witness ==
  /\ guard.called /\ guard.ok /\ allowedDirs # <<>>
  /\ \A i \in DOMAIN allowedDirs : guard.path # allowedDirs[i]

\* a path that does not start at the root
IsRelative(path) == path = <<>> \/ path[1] # "/"

\* a path with a segment '..'
HasDotDot(path) ==
  \E i \in 1..(Len(path) - 1) :
    /\ path[i] = "." /\ path[i + 1] = "."
    /\ (i = 1 \/ path[i - 1] = "/")
    /\ (i + 1 = Len(path) \/ path[i + 2] = "/")

\* C20: with a non-empty allow-list no session exists for a relative path or
\* for a path with a '..' segment.
C20_NoEscapingPath ==
  allowedDirs # <<>>
  => \A id \in DOMAIN sessions :
       ~IsRelative(sessions[id].path) /\ ~HasDotDot(sessions[id].path)

\* C21: a POST /sessions request that is answered with anything but 201 (no
\* token or a wrong one, no path, a path the guard refuses, a directory that
\* cannot be listed) creates no session record and leaves the reaper's
\* ticker as it was.
C21_RejectedPostKeepsRegistry ==
  [][\A tok \in TokenInputs, path \in Paths, dirExists \in BOOLEAN :
       (reply'.status # 201 /\ HttpPostSession(tok, path, dirExists))
         => UNCHANGED <<sessions, sessionCallbacks, heartbeatTimer, nextId>>]_vars

\* a request was refused by the guard while the registry was still empty
C21_Witness ==
  /\ reply.route = "sessions"
  /\ reply.status = 403
  /\ sessions = <<>>
  /\ ~heartbeatTimer

\* the digest verify compares with ("" when there is none), and its answer
StoredHash == getStoredTokenHash(World).ret
Verifies(t) == verifyToken(World, t).ret

\* the stored digest and every answer of verify are the same after the step
SameAnswers ==
  /\ StoredHash' = StoredHash
  /\ \A u \in AuthTokens : Verifies(u)' = Verifies(u)

\* C22: a token-store operation that fails keeps the stored hash: POST /init
\* answered 409 (a hash is present) and PUT / answered 401 (the current token
\* does not verify) leave the stored digest as it was, and verify answers
\* every token as before.
C22_FailedOpKeepsHash ==
  [][(\A t \in AuthInputs :
        (reply'.status = 409 /\ HttpAuthInit(t)) => SameAnswers)
     /\ (\A cur \in AuthInputs, new \in AuthInputs :
           (reply'.status = 401 /\ HttpAuthRotate(cur, new)) => SameAnswers)]_vars

\* a rotation was refused while a hash was stored
C22_Witness ==
  /\ reply.route = "rotate"
  /\ reply.status = 401
  /\ StoredHash # ""

\* the last request was a PUT /api/auth {cur, new} answered 200
Rotated(cur, new) ==
  /\ reply.route = "rotate"
  /\ reply.status = 200
  /\ reply.args = <<cur, new>>

\* C23 (as stated): after every successful rotate(cur, next), verify(next)
\* is true and verify(cur) is false, for all tokens cur and next.
C23_RotateThenVerifyAll ==
  \A cur \in AuthTokens, new \in AuthTokens :
    Rotated(cur, new) => Verifies(new) /\ ~Verifies(cur)

\* C23 (amended): after every successful rotate(cur, next), verify(next) is
\* true, and verify(cur) is false whenever next differs from cur.
C23_RotateThenVerify ==
  \A cur \in AuthTokens, new \in AuthTokens :
    Rotated(cur, new) => Verifies(new) /\ (cur # new => ~Verifies(cur))

\* a rotation from one token to a different one succeeded
C23_Witness ==
  \E cur \in AuthTokens, new \in AuthTokens :
    Rotated(cur, new) /\ cur # new /\ Len(cur) >= 8 /\ Len(new) >= 8

\* C24: a DELETE /api/auth request that carries no token, or a token verify
\* does not accept, leaves the stored token hash (JSON entry and legacy file)
\* as it was.
C24_DeleteNeedsToken ==
  [][\A tok \in TokenInputs :
       (~authMiddleware(tok) /\ HttpAuthDelete(tok))
         => UNCHANGED <<tokenHash, legacyHash>>]_vars

\* C25: when the legacy token file exists and the JSON config has no auth
\* entry, whether the JSON file is absent or present, a token-store access
\* (here verify) leaves the legacy digest in the JSON config's auth.tokenHash.
C25_LegacyMigrated ==
  [][\A t \in AuthTokens :
       (legacyHash # "" /\ tokenHash = "" /\ HttpAuthVerify(t))
         => tokenHash' = legacyHash]_vars

\* the dev PTY children that were spawned and neither killed nor have exited
LiveDevPtys == {p \in DOMAIN devPtys : devPtys[p].state = "live"}

\* C26: at most one dev-terminal PTY is live in any reachable state, also
\* when a kill is followed by a new init before the exit of the killed PTY
\* is delivered.
C26_OneDevPty == Cardinality(LiveDevPtys) <= 1

\* C27: a dev-terminal client whose init finds the shared PTY running, with
\* output in its history, is sent ready with isNew false followed by the
\* replayed history.
C27_ReadyThenHistory ==
  \A c \in Conns :
    (/\ conn[c].kind = "dev"
     /\ devHistory # <<>>
     /\ outbox[c] # <<>>
     /\ outbox[c][1].type = "ready"
     /\ ~outbox[c][1].isNew)
      => /\ Len(outbox[c]) >= 2
         /\ outbox[c][2].type = "history"

\* C28: after the shutdown handler has run, no session or dev socket is
\* still open, every session PTY is killed or gone, the registry is empty,
\* the reaper's ticker is stopped and the dev PTY is killed.
C28_ShutdownStopsAll ==
  stopped =>
    /\ \A c \in Conns : conn[c].state \notin {"open", "broken"}
    /\ \A p \in DOMAIN ptys : ptys[p].state # "live"
    /\ sessions = <<>>
    /\ ~heartbeatTimer
    /\ devPty = 0
    /\ LiveDevPtys = {}

\* C29: when the broadcast of an output chunk fails on some sockets of a
\* session, exactly those sockets leave the session's client set, every other
\* socket of the set is sent the chunk, and the session's status and PTY are
\* what they were; the same holds of every later chunk.
C29_FailedSendEvicts ==
  [][\A p \in 1..MaxHubSpawns :
       (/\ p \in DOMAIN ptys
        /\ ptys[p].cb
        /\ PtyData(p, 60000, 1, MaxChunks))
       => LET id == ptys[p].sid
              sc == ClientsOf(clients, id)
              bad == {c \in sc : conn[c].state = "broken"}
          IN /\ ClientsOf(clients', id) = sc \ bad
             /\ \A c \in sc \ bad : OutputFrames(outbox'[c]) # {}
             /\ \A c \in bad : outbox'[c] = <<>>
             /\ ptys'[p].state = ptys[p].state
             /\ Present(id) => /\ id \in DOMAIN sessions'
                               /\ sessions'[id].status = sessions[id].status
                               /\ sessions'[id].process = sessions[id].process]_vars

\* a broken socket is out of its session's set while the other socket of the
\* session is still in it and was just sent an output chunk
C29_Witness ==
  \E c \in Conns, d \in Conns :
    /\ c # d
    /\ conn[c].kind = "session" /\ conn[c].state = "broken"
    /\ conn[d].kind = "session" /\ conn[d].state = "open"
    /\ conn[c].sessionId = conn[d].sessionId
    /\ ClientsOf(clients, conn[c].sessionId) = {d}
    /\ outbox[c] = <<>>
    /\ OutputFrames(outbox[d]) # {}
    /\ Present(conn[d].sessionId)
    /\ sessions[conn[d].sessionId].status = "running"

\* the frames the session's callbacks send when the spawn fails
SpawnFailed == <<[type |-> "error", scope |-> "session"],
                 [type |-> "status", status |-> "exited"]>>

\* C30: when the spawn fails on init, the session is 'exited' with no PTY
\* handle, every socket of the session is sent an error frame and then a
\* status frame 'exited', the initiating socket is not marked initialized, and
\* the other sessions, their sockets, the PTY children and the hub's client
\* sets are as before.
C30_SpawnFailure ==
  [][\A c \in Conns :
       (/\ IsSessionSocket(c)
        /\ ~conn[c].initialized
        /\ Present(conn[c].sessionId)
        /\ sessions[conn[c].sessionId].process = 0
        /\ HandleInit(c, FALSE, MaxHubSpawns))
       => LET id == conn[c].sessionId
          IN /\ sessions'[id].status = "exited"
             /\ sessions'[id].process = 0
             /\ \A d \in ClientsOf(clients, id) \ {c} : outbox'[d] = SpawnFailed
             /\ outbox'[c] = SpawnFailed \o <<[type |-> "error", scope |-> "init"]>>
             /\ ~conn'[c].initialized
             /\ \A d \in Conns \ {c} : conn'[d] = conn[d]
             /\ \A d \in Conns \ ClientsOf(clients, id) : outbox'[d] = <<>>
             /\ \A j \in DOMAIN sessions \ {id} :
                  j \in DOMAIN sessions' /\ sessions'[j] = sessions[j]
             /\ ptys' = ptys
             /\ clients' = clients
             /\ timers' = timers]_vars

\* a spawn failed on one session while the other session runs with its
\* initialized socket
C30_Witness ==
  \E c \in Conns, d \in Conns :
    /\ c # d
    /\ IsSessionSocket(c) /\ IsSessionSocket(d)
    /\ conn[c].sessionId # conn[d].sessionId
    /\ outbox[c] = SpawnFailed \o <<[type |-> "error", scope |-> "init"]>>
    /\ ~conn[c].initialized
    /\ Present(conn[c].sessionId)
    /\ sessions[conn[c].sessionId].status = "exited"
    /\ conn[d].initialized
    /\ Present(conn[d].sessionId)
    /\ sessions[conn[d].sessionId].status = "running"
    /\ sessions[conn[d].sessionId].process # 0

\* the last handler killed a PTY child of session id
KilledBy(ops, id) ==
  \E i \in DOMAIN ops : ops[i].op = "kill" /\ ptys[ops[i].pty].sid = id

\* C31: terminate is idempotent: a stop of a session right after the handler
\* that terminated it and killed its PTY leaves the status and the null handle
\* as that first call left them, kills no PTY child and changes none.
C31_TerminateIdempotent ==
  [][\A id \in Ids :
       (/\ Present(id)
        /\ KilledBy(ptyOps, id)
        /\ HttpStopSession(GoodToken, id))
       => /\ sessions[id].process = 0
          /\ sessions'[id].process = 0
          /\ sessions'[id].status = sessions[id].status
          /\ \A i \in DOMAIN ptyOps' : ptyOps'[i].op # "kill"
          /\ ptys' = ptys]_vars

\* a stop that found the session terminated and its killed child not yet gone:
\* it sent the status again and called no PTY
C31_Witness ==
  \E id \in DOMAIN sessions :
    /\ sessions[id].status = "terminated"
    /\ sessions[id].process = 0
    /\ \E p \in DOMAIN ptys : ptys[p].sid = id /\ ptys[p].state = "killed"
    /\ ptyOps = <<>>
    /\ HasStatus(outbox["c1"], "terminated")

\* C32: delete(id) on an existing session kills its PTY if present and
\* removes the record and its callbacks; delete on an unknown id changes no
\* registry state; and no later event of a deleted session's PTY child sends
\* a frame through the hub or schedules its grace close.
C32_DeleteSilences ==
  [][(\A id \in Ids :
        HttpDeleteSession(GoodToken, id)
        => IF Present(id)
           THEN /\ id \notin DOMAIN sessions'
                /\ id \notin sessionCallbacks'
                /\ sessions[id].process # 0
                     => ptys'[sessions[id].process].state = "killed"
           ELSE UNCHANGED <<sessions, sessionCallbacks, ptys, heartbeatTimer>>)
     /\ (\A p \in 1..MaxHubSpawns :
           (/\ p \in DOMAIN ptys
            /\ ~Present(ptys[p].sid)
            /\ (PtyExit(p) \/ PtyData(p, 60000, 1, MaxChunks)))
           => /\ \A c \in Conns : outbox'[c] = <<>>
              /\ timers' = timers)]_vars

\* C33: the reaper's timer runs only while the registry holds a session: it
\* is stopped whenever the registry becomes empty, also when the last session
\* is removed by delete.
C33_ReaperStopsWhenEmpty == sessions = <<>> => ~heartbeatTimer

\* C35: no state has an empty (absent) client set together with registered
\* hub callbacks for that session.
C35_NoCallbacksWithoutClients ==
  \A id \in sessionCallbacks : ClientsOf(clients, id) # {}

\* the longest suffix of h whose chunks' bytes sum to at most MAX_HISTORY_SIZE
RECURSIVE LongestSuffix(_)
LongestSuffix(h) ==
  IF h # <<>> /\ SumBytes(h) > MAX_HISTORY_SIZE THEN LongestSuffix(Tail(h)) ELSE h

\* the child spawned last for session id
IsCurrentPty(p, id) ==
  \A q \in DOMAIN ptys : ptys[q].sid = id => q <= p

\* C34: the history of a session is, in emission order, the longest suffix of
\* the chunks its current PTY emitted whose bytes sum to at most
\* MAX_HISTORY_SIZE: a chunk of the child spawned last is appended and the
\* oldest chunks are dropped until the rest fits, and a chunk of an earlier
\* child of the session leaves the history alone.
C34_HistoryIsLongestSuffix ==
  [][\A p \in 1..MaxHubSpawns, length \in ChunkSizes, width \in CharWidths :
       (/\ p \in DOMAIN ptys
        /\ Present(ptys[p].sid)
        /\ PtyData(p, length, width, MaxHistoryChunks))
       => LET id == ptys[p].sid
              chunk == [pty |-> p, n |-> ptys[p].emitted + 1,
                        length |-> length, bytes |-> length * width]
          IN sessions'[id].outputHistory =
               IF IsCurrentPty(p, id)
               THEN LongestSuffix(Append(sessions[id].outputHistory, chunk))
               ELSE sessions[id].outputHistory]_vars

\* C36: every resize a handler forwards to a PTY child, of a session or of the
\* dev terminal, has cols and rows within 1..1000.
C36_ResizeClamped ==
  \A i \in DOMAIN ptyOps :
    ptyOps[i].op \in {"resize", "devresize"}
      => ptyOps[i].cols \in 1..1000 /\ ptyOps[i].rows \in 1..1000

\* C37: for a command line that contains '--workdir <dir>', the shell command
\* changes to <dir> and runs the command line with '--workdir <dir>' removed,
\* and runs the literal 'claude' when the removal leaves nothing.
C37_WorkdirStripped ==
  (launch.called /\ match(launch.command) # 0)
    => /\ launch.dir = launch.command[match(launch.command) + 1]
       /\ launch.run = IF replace(launch.command) = <<>> THEN <<"claude">>
                       ELSE replace(launch.command)

\* the output subscriptions socket c holds on the dev terminal
SubscriptionsOf(c) == {i \in DOMAIN devClients : devClients[i] = c}

\* C38: on the dev terminal a socket holds at most one output subscription
\* however many init messages it sent, so it gets a PTY chunk once, and a
\* socket that is closed holds none.
C38_DevInitIdempotent ==
  \A c \in Conns :
    /\ Cardinality(SubscriptionsOf(c)) <= 1
    /\ Cardinality({i \in DOMAIN outbox[c] : outbox[c][i].type = "output"}) <= 1
    /\ conn[c].state = "closed" => SubscriptionsOf(c) = {}

\* C39: on the dev terminal an input message of a socket that has not sent
\* init is not written to the shared PTY.
C39_DevInputNeedsInit ==
  [][\A c \in Conns :
       (~conn[c].unsubscribe /\ DevInput(c))
         => \A i \in DOMAIN ptyOps' : ptyOps'[i].op # "devwrite"]_vars

\* socket c is on session id with a PTY it initialized, and no exit frame was
\* sent to it: it connected after every exit of the session so far
AttachedAfterExit(c, id) ==
  /\ c \in ClientsOf(clients, id)
  /\ conn[c].state = "open" /\ conn[c].initialized
  /\ Present(id) /\ sessions[id].process # 0
  /\ "exit" \notin seen[c] \cup FrameTypes(outbox[c])

\* C40: the grace timer of a PTY's exit closes only the sockets that were
\* attached to that PTY: a socket that connected and initialized a PTY on the
\* session after the exit stays open and the session keeps its callbacks
\* when the timer fires.
C40_GraceSparesLaterClients ==
  [][\A id \in Ids, c \in Conns :
       (AttachedAfterExit(c, id) /\ GraceTimerFire(id))
         => conn'[c].state = "open" /\ id \in sessionCallbacks']_vars
====
